---- MODULE Spec2Model ----
(***************************************************************************)
(* A model of slitlessutils.core.utilities.pool.Pool: construction         *)
(* (worker-count resolution) and __call__ (serial loop, or a               *)
(* multiprocessing.Pool driven through imap).                              *)
(*                                                                         *)
(* Conventions.  Python's None is the empty tuple and a present value v is *)
(* <<v>>.  Keyword arguments are sets of <<key, value>> pairs with unique  *)
(* keys.  Job indices are 0-based as in Python: job i carries              *)
(* itrs.items[i + 1].                                                      *)
(***************************************************************************)
EXTENDS Integers, Sequences, FiniteSets, TLC

(* ---------------------------- bounds ----------------------------------- *)
MaxLen == 3          \* longest input sequence handed to __call__
MaxGenLen == 1       \* longest input handed to __call__ as a generator
MaxConcLen == 2      \* longest input of a call that may overlap another call
MaxTotal == 2        \* largest explicit total= handed to __call__
MaxOption == 2       \* keyword option values are 1..MaxOption
MaxPhysical == 4     \* most physical cores a constructed-on machine has
MaxLogical == 8      \* most logical cores
MaxNcpuArg == 3      \* largest small ncpu= request (100 is always tried too)

None == <<>>
Some(v) == <<v>>
Min(a, b) == IF a <= b THEN a ELSE b
Max(a, b) == IF a >= b THEN a ELSE b

Callers == {"main", "other"}   \* threads that hold a reference to the pool
MainCaller == "main"           \* the thread that calls when calls are serialized

\* The items are pairwise distinct: the k-th item of its kind.  The user
\* function returns on the "ok" items and raises on the "bad" ones.
Kinds == {"ok", "bad"}
Item(kind, k) == [kind |-> kind, id |-> k]
Items == {Item(kind, k) : kind \in Kinds, k \in 1..MaxLen}
BadItems == {item \in Items : item.kind = "bad"}
SharedArgs == {<<>>, <<"s">>}
Kwargs == {{}} \cup {{<<"k", v>>} : v \in 1..MaxOption}
Totals == {None} \cup {Some(n) : n \in 1..MaxTotal}
NcpuArgs == {None} \cup {Some(n) : n \in (-1..MaxNcpuArg) \cup {100}}
Descs == {"", "jobs"}

\* The input sequences of at most n items: every pattern of items the function
\* returns on and items it raises on, the items numbered as they come.
InputOf(pattern) ==
    [i \in DOMAIN pattern |->
        Item(pattern[i], Cardinality({j \in 1..i : pattern[j] = pattern[i]}))]
SeqsUpTo(n) == UNION {{InputOf(p) : p \in [1..m -> Kinds]} : m \in 0..n}

\* what may be handed to __call__ as itrs: lists (sized) and generators (unsized)
Iterables ==
    {[items |-> s, sized |-> TRUE] : s \in SeqsUpTo(MaxLen)} \cup
    {[items |-> s, sized |-> FALSE] : s \in SeqsUpTo(MaxGenLen)}

VARIABLES
    cpu,      \* the machine: [ncpus |-> physical cores, ncores |-> logical cores]
    ncpuArg,  \* the ncpu= argument the pool was constructed with
    self,     \* the Pool object: [ncpu, desc, func]
    frame,    \* per caller: the activation of Pool.__call__
    mpool     \* per caller: the multiprocessing.Pool of its `with` block

vars == <<cpu, ncpuArg, self, frame, mpool>>

(* ------------------------ the user function ---------------------------- *)
\* The function given to the pool, as an object: the base callable and the
\* keywords functools.partial has bound to it.
TheFunc == [name |-> "func", keywords |-> {}]

Keys(kw) == {p[1] : p \in kw}
\* {**b, **kw}: kw wins on a shared key
Merge(b, kw) == kw \cup {p \in b : p[1] \notin Keys(kw)}

\* functools.partial(fn, **kw)
Partial(fn, kw) == [fn EXCEPT !.keywords = Merge(@, kw)]

\* The base callable: deterministic; it raises on the bad items and otherwise
\* returns a value that tells which call produced it.
FuncRaises(item, args, kw) == item \in BadItems
FuncValue(item, args, kw) ==
    [kind |-> IF FuncRaises(item, args, kw) THEN "error" ELSE "result",
     item |-> item, args |-> args, kwargs |-> kw]

\* fn(item, *args, **kw) for a function object fn: [ok, value]
Apply(fn, item, args, kw) ==
    LET eff == Merge(fn.keywords, kw)
    IN [ok |-> ~FuncRaises(item, args, eff), value |-> FuncValue(item, args, eff)]

OtherError(type) == [kind |-> type, item |-> Item("", 0), args |-> <<>>, kwargs |-> {}]

(* --------------------------- Pool.__init__ ----------------------------- *)
\* mutant: only a negative request falls back to the default
ResolveNcpuStrict(ncpus, ncores, ncpu) ==
    LET nthreads == ncores \div ncpus
        nmax == ncpus - nthreads
    IN IF ncpu = None \/ ncpu[1] < 0
       THEN nmax
       ELSE Min(Max(ncpu[1], 1), nmax)

\* lines 35-44: the stored worker count
ResolveNcpu(ncpus, ncores, ncpu) ==
    LET nthreads == ncores \div ncpus
        nmax == ncpus - nthreads
    IN IF ncpu = None \/ ncpu[1] <= 0
       THEN nmax
       ELSE Min(Max(ncpu[1], 1), nmax)

PoolInit(func, machine, ncpu, desc) ==
    [ncpu |-> ResolveNcpu(machine.ncpus, machine.ncores, ncpu),
     desc |-> desc,
     func |-> func]

(* --------------------------- Pool.__call__ ----------------------------- *)
IdleFrame ==
    [pc |-> "idle",
     itrs |-> [items |-> <<>>, sized |-> TRUE],
     args |-> <<>>,
     totalArg |-> None,    \* the total= argument as passed
     kwargs |-> {},
     total |-> None,       \* local `total` after line 124
     ncpu |-> None,        \* local `ncpu` of line 127
     func |-> None,        \* local `func` of line 139
     results |-> <<>>,
     error |-> None,       \* the exception that left __call__
     ticks |-> 0,          \* updates of the tqdm progress bar
     log |-> <<>>,         \* LOGGER.info lines
     calls |-> <<>>,       \* history: the calls the base callable received
     early |-> FALSE,      \* history: some result arrived before an earlier job's
     overlap |-> FALSE,    \* history: another caller's activation ran during this one
     entry |-> TheFunc]    \* history: self.func when __call__ was entered

NoPool ==
    [open |-> FALSE, processes |-> 0, nexttask |-> 0,
     inqueue |-> <<>>, workers |-> <<>>,
     index |-> 0, items |-> <<>>, unsorted |-> {}, length |-> None]

\* no activation of __call__ is running for caller c
Ended(c) == frame[c].pc \in {"idle", "returned", "raised"}

\* a fresh activation; lines 122-127
Enter(itrs, args, total, kwargs) ==
    [IdleFrame EXCEPT !.itrs = itrs, !.args = args, !.totalArg = total,
                      !.kwargs = kwargs, !.entry = self.func]

\* the activations after caller c entered __call__ with activation fr: c's and
\* every activation that is running are overlapped when one is running
Entered(c, fr) ==
    [d \in Callers |->
        IF d = c THEN [fr EXCEPT !.overlap = \E e \in Callers \ {c} : ~Ended(e)]
        ELSE IF ~Ended(d) THEN [frame[d] EXCEPT !.overlap = TRUE]
        ELSE frame[d]]

\* mutant: the length is asked for only after the keyword options were bound
CallNoLenLate(c, itrs, args, kwargs) ==
    /\ frame[c].pc = "idle"
    /\ ~itrs.sized
    /\ frame' = Entered(c, [Enter(itrs, args, None, kwargs) EXCEPT
                                !.pc = "raised", !.error = Some(OtherError("TypeError"))])
    /\ mpool' = [mpool EXCEPT ![c] = NoPool]
    /\ self' = [self EXCEPT !.func = Partial(self.func, kwargs)]
    /\ UNCHANGED <<cpu, ncpuArg>>

\* lines 123-124 fail: len() of an iterable that has none
CallNoLen(c, itrs, args, kwargs) ==
    /\ frame[c].pc = "idle"
    /\ ~itrs.sized
    /\ frame' = Entered(c, [Enter(itrs, args, None, kwargs) EXCEPT
                                !.pc = "raised", !.error = Some(OtherError("TypeError"))])
    /\ mpool' = [mpool EXCEPT ![c] = NoPool]
    /\ UNCHANGED <<cpu, ncpuArg, self>>

\* mutant: the serial branch emits no notice
CallSilentSerial(c, itrs, args, total, kwargs) ==
    /\ frame[c].pc = "idle"
    /\ total # None \/ itrs.sized
    /\ LET n == IF total = None THEN Len(itrs.items) ELSE total[1]
           ncpu == Min(n, self.ncpu)
           f0 == [Enter(itrs, args, total, kwargs) EXCEPT
                     !.total = Some(n), !.ncpu = Some(ncpu)]
       IN frame' = Entered(c,
             IF ncpu = 1
             THEN [f0 EXCEPT !.pc = "serial"]
             ELSE [f0 EXCEPT !.pc = IF kwargs # {} THEN "save" ELSE "mkpool",
                             !.log = <<[mode |-> "Parallel", jobs |-> Some(n),
                                        processes |-> Some(ncpu)]>>])
    /\ mpool' = [mpool EXCEPT ![c] = NoPool]
    /\ UNCHANGED <<cpu, ncpuArg, self>>

\* mutant: the effective worker count is stored in the pool object
CallStoresNcpu(c, itrs, args, total, kwargs) ==
    /\ frame[c].pc = "idle"
    /\ total # None \/ itrs.sized
    /\ LET n == IF total = None THEN Len(itrs.items) ELSE total[1]
           ncpu == Min(n, self.ncpu)
           f0 == [Enter(itrs, args, total, kwargs) EXCEPT
                     !.total = Some(n), !.ncpu = Some(ncpu)]
       IN /\ frame' = Entered(c,
                IF ncpu = 1
                THEN [f0 EXCEPT !.pc = "serial",
                                !.log = <<[mode |-> "Serial", jobs |-> None,
                                           processes |-> None]>>]
                ELSE [f0 EXCEPT !.pc = IF kwargs # {} THEN "save" ELSE "mkpool",
                                !.log = <<[mode |-> "Parallel", jobs |-> Some(n),
                                           processes |-> Some(ncpu)]>>])
          /\ self' = [self EXCEPT !.ncpu = ncpu]
    /\ mpool' = [mpool EXCEPT ![c] = NoPool]
    /\ UNCHANGED <<cpu, ncpuArg>>

\* lines 122-138: total, ncpu, the branch and its LOGGER.info line
Call(c, itrs, args, total, kwargs) ==
    /\ frame[c].pc = "idle"
    /\ total # None \/ itrs.sized
    /\ LET n == IF total = None THEN Len(itrs.items) ELSE total[1]
           ncpu == Min(n, self.ncpu)
           f0 == [Enter(itrs, args, total, kwargs) EXCEPT
                     !.total = Some(n), !.ncpu = Some(ncpu)]
       IN frame' = Entered(c,
             IF ncpu = 1
             THEN [f0 EXCEPT !.pc = "serial",
                             !.log = <<[mode |-> "Serial", jobs |-> None,
                                        processes |-> None]>>]
             ELSE [f0 EXCEPT !.pc = IF kwargs # {} THEN "save" ELSE "mkpool",
                             !.log = <<[mode |-> "Parallel", jobs |-> Some(n),
                                        processes |-> Some(ncpu)]>>])
    /\ mpool' = [mpool EXCEPT ![c] = NoPool]
    /\ UNCHANGED <<cpu, ncpuArg, self>>

\* the record of one call of the base callable
CallRecord(i, fn, item, args, kw) ==
    [idx |-> i, item |-> item, args |-> args, kwargs |-> Merge(fn.keywords, kw)]

\* mutant: the serial loop walks the input from its end
SerialStepBackwards(c) ==
    /\ frame[c].pc = "serial"
    /\ Len(frame[c].results) < Len(frame[c].itrs.items)
    /\ LET fr == frame[c]
           i == Len(fr.itrs.items) - Len(fr.results) - 1
           item == fr.itrs.items[i + 1]
           out == Apply(self.func, item, fr.args, fr.kwargs)
           called == Append(fr.calls, CallRecord(i, self.func, item, fr.args, fr.kwargs))
       IN frame' = [frame EXCEPT ![c] =
             IF out.ok
             THEN [fr EXCEPT !.results = Append(@, out.value),
                             !.ticks = @ + 1, !.calls = called]
             ELSE [fr EXCEPT !.pc = "raised", !.error = Some(out.value),
                             !.calls = called]]
    /\ UNCHANGED <<cpu, ncpuArg, self, mpool>>

\* mutant: the serial loop keeps the error of a failing item as its result
\* and goes on
SerialStepKeepGoing(c) ==
    /\ frame[c].pc = "serial"
    /\ Len(frame[c].results) < Len(frame[c].itrs.items)
    /\ LET fr == frame[c]
           i == Len(fr.results)
           item == fr.itrs.items[i + 1]
           out == Apply(self.func, item, fr.args, fr.kwargs)
           called == Append(fr.calls, CallRecord(i, self.func, item, fr.args, fr.kwargs))
       IN frame' = [frame EXCEPT ![c] =
             [fr EXCEPT !.results = Append(@, out.value),
                        !.ticks = @ + 1, !.calls = called]]
    /\ UNCHANGED <<cpu, ncpuArg, self, mpool>>

\* lines 132-133: one turn of the list comprehension over tqdm(itrs)
SerialStep(c) ==
    /\ frame[c].pc = "serial"
    /\ Len(frame[c].results) < Len(frame[c].itrs.items)
    /\ LET fr == frame[c]
           i == Len(fr.results)
           item == fr.itrs.items[i + 1]
           out == Apply(self.func, item, fr.args, fr.kwargs)
           called == Append(fr.calls, CallRecord(i, self.func, item, fr.args, fr.kwargs))
       IN frame' = [frame EXCEPT ![c] =
             IF out.ok
             THEN [fr EXCEPT !.results = Append(@, out.value),
                             !.ticks = @ + 1, !.calls = called]
             ELSE [fr EXCEPT !.pc = "raised", !.error = Some(out.value),
                             !.calls = called]]
    /\ UNCHANGED <<cpu, ncpuArg, self, mpool>>

\* lines 132-133, 156: the iterable is exhausted; return results
SerialReturn(c) ==
    /\ frame[c].pc = "serial"
    /\ Len(frame[c].results) = Len(frame[c].itrs.items)
    /\ frame' = [frame EXCEPT ![c].pc = "returned"]
    /\ UNCHANGED <<cpu, ncpuArg, self, mpool>>

\* line 139: func = self.func
SaveFunc(c) ==
    /\ frame[c].pc = "save"
    /\ frame' = [frame EXCEPT ![c].func = Some(self.func), ![c].pc = "bind"]
    /\ UNCHANGED <<cpu, ncpuArg, self, mpool>>

\* line 140: self.func = partial(self.func, **kwargs)
BindFunc(c) ==
    /\ frame[c].pc = "bind"
    /\ self' = [self EXCEPT !.func = Partial(self.func, frame[c].kwargs)]
    /\ frame' = [frame EXCEPT ![c].pc = "mkpool"]
    /\ UNCHANGED <<cpu, ncpuArg, mpool>>

\* line 143: mp.Pool(processes=ncpu) refuses a process count below 1
MakePoolFail(c) ==
    /\ frame[c].pc = "mkpool"
    /\ frame[c].ncpu[1] < 1
    /\ frame' = [frame EXCEPT ![c].pc = "raised",
                              ![c].error = Some(OtherError("ValueError"))]
    /\ UNCHANGED <<cpu, ncpuArg, self, mpool>>

\* mutant: one worker process per input
MakePoolPerItem(c) ==
    /\ frame[c].pc = "mkpool"
    /\ frame[c].ncpu[1] >= 1
    /\ mpool' = [mpool EXCEPT ![c] =
                    [NoPool EXCEPT !.open = TRUE, !.processes = Len(frame[c].itrs.items),
                                   !.workers = [w \in 1..Len(frame[c].itrs.items) |-> None]]]
    /\ frame' = [frame EXCEPT ![c].pc = "collect"]
    /\ UNCHANGED <<cpu, ncpuArg, self>>

\* lines 143-144: the worker processes start, all idle; p.imap hands the
\* generator of __zip__ to the task handler
MakePool(c) ==
    /\ frame[c].pc = "mkpool"
    /\ frame[c].ncpu[1] >= 1
    /\ mpool' = [mpool EXCEPT ![c] =
                    [NoPool EXCEPT !.open = TRUE, !.processes = frame[c].ncpu[1],
                                   !.workers = [w \in 1..frame[c].ncpu[1] |-> None]]]
    /\ frame' = [frame EXCEPT ![c].pc = "collect"]
    /\ UNCHANGED <<cpu, ncpuArg, self>>

\* lines 71-72: the tuple __zip__ yields for one item
Zip(item, args) == <<item>> \o args

\* line 80: __worker__ in a worker process, on the pool object that was
\* pickled with the task
Worker(task) == Apply(task.func, Head(task.args), Tail(task.args), {})

\* line 144: the task handler takes the next tuple from __zip__ and sends
\* (job index, self.__worker__, tuple) down the task pipe; the bound method is
\* pickled here, with the self.func of this moment
Dispatch(c) ==
    /\ mpool[c].open
    /\ mpool[c].nexttask < Len(frame[c].itrs.items)
    /\ LET i == mpool[c].nexttask
           task == [idx |-> i, func |-> self.func,
                    args |-> Zip(frame[c].itrs.items[i + 1], frame[c].args)]
       IN mpool' = [mpool EXCEPT ![c].inqueue = Append(@, task),
                                 ![c].nexttask = i + 1]
    /\ UNCHANGED <<cpu, ncpuArg, self, frame>>

\* line 144: __zip__ is exhausted; the task handler tells the imap iterator
\* how many results to expect
SetLength(c) ==
    /\ mpool[c].open
    /\ mpool[c].nexttask = Len(frame[c].itrs.items)
    /\ mpool[c].length = None
    /\ mpool' = [mpool EXCEPT ![c].length = Some(mpool[c].nexttask)]
    /\ UNCHANGED <<cpu, ncpuArg, self, frame>>

\* an idle worker process takes the oldest task and enters __worker__
WorkerTake(c, w) ==
    /\ mpool[c].open
    /\ w \in 1..mpool[c].processes
    /\ mpool[c].workers[w] = None
    /\ mpool[c].inqueue # <<>>
    /\ LET task == Head(mpool[c].inqueue)
       IN /\ mpool' = [mpool EXCEPT ![c].inqueue = Tail(@),
                                    ![c].workers[w] = Some(task)]
          /\ frame' = [frame EXCEPT ![c].calls =
                          Append(@, CallRecord(task.idx, task.func, Head(task.args),
                                               Tail(task.args), {}))]
    /\ UNCHANGED <<cpu, ncpuArg, self>>

\* IMapIterator._set: a result is queued for the caller when it is the next
\* one in job order, and with it the stored results that follow it; a result
\* that arrives early is stored under its job index
RECURSIVE Flush(_)
Flush(it) ==
    IF \E r \in it.unsorted : r.idx = it.index
    THEN LET r == CHOOSE r \in it.unsorted : r.idx = it.index
         IN Flush([it EXCEPT !.items = Append(@, r.obj), !.index = @ + 1,
                             !.unsorted = @ \ {r}])
    ELSE it

\* mutant: results are queued for the caller as they arrive
ImapSetArrival(it, i, obj) ==
    [it EXCEPT !.items = Append(@, obj), !.index = @ + 1]

ImapSet(it, i, obj) ==
    IF it.index = i
    THEN Flush([it EXCEPT !.items = Append(@, obj), !.index = @ + 1])
    ELSE [it EXCEPT !.unsorted = @ \cup {[idx |-> i, obj |-> obj]}]

\* mutant: a worker whose call raised sends nothing back
WorkerFinishDropsError(c, w) ==
    /\ mpool[c].open
    /\ w \in 1..mpool[c].processes
    /\ mpool[c].workers[w] # None
    /\ LET task == mpool[c].workers[w][1]
       IN /\ mpool' = [mpool EXCEPT ![c] =
                          IF Worker(task).ok
                          THEN ImapSet([@ EXCEPT !.workers[w] = None], task.idx, Worker(task))
                          ELSE [@ EXCEPT !.workers[w] = None]]
          /\ frame' = [frame EXCEPT ![c].early = @ \/ task.idx # mpool[c].index]
    /\ UNCHANGED <<cpu, ncpuArg, self>>

\* line 80: __worker__ returns or raises; the worker sends (job index,
\* (success, value)) up the result pipe and is idle again.  The result handler
\* reads that pipe in order and calls _set for each message; its turn is taken
\* together with the send.
WorkerFinish(c, w) ==
    /\ mpool[c].open
    /\ w \in 1..mpool[c].processes
    /\ mpool[c].workers[w] # None
    /\ LET task == mpool[c].workers[w][1]
       IN /\ mpool' = [mpool EXCEPT ![c] =
                          ImapSet([@ EXCEPT !.workers[w] = None], task.idx, Worker(task))]
          /\ frame' = [frame EXCEPT ![c].early = @ \/ task.idx # mpool[c].index]
    /\ UNCHANGED <<cpu, ncpuArg, self>>

\* mutant: the result is stored but the progress bar is not advanced
CollectNextSilent(c) ==
    /\ frame[c].pc = "collect"
    /\ mpool[c].items # <<>>
    /\ Head(mpool[c].items).ok
    /\ frame' = [frame EXCEPT ![c].results = Append(@, Head(mpool[c].items).value)]
    /\ mpool' = [mpool EXCEPT ![c].items = Tail(@)]
    /\ UNCHANGED <<cpu, ncpuArg, self>>

\* line 145: next() of the imap iterator yields a result; tqdm counts it and
\* list() stores it
CollectNext(c) ==
    /\ frame[c].pc = "collect"
    /\ mpool[c].items # <<>>
    /\ Head(mpool[c].items).ok
    /\ frame' = [frame EXCEPT ![c].results = Append(@, Head(mpool[c].items).value),
                              ![c].ticks = @ + 1]
    /\ mpool' = [mpool EXCEPT ![c].items = Tail(@)]
    /\ UNCHANGED <<cpu, ncpuArg, self>>

\* mutant: a failed job is dropped and collection goes on
CollectRaiseSuppressed(c) ==
    /\ frame[c].pc = "collect"
    /\ mpool[c].items # <<>>
    /\ ~Head(mpool[c].items).ok
    /\ mpool' = [mpool EXCEPT ![c].items = Tail(@)]
    /\ UNCHANGED <<cpu, ncpuArg, self, frame>>

\* mutant: the caller raises whichever failed result has arrived
CollectRaiseAny(c) ==
    /\ frame[c].pc = "collect"
    /\ \E v \in {mpool[c].items[j] : j \in 1..Len(mpool[c].items)}
                 \cup {r.obj : r \in mpool[c].unsorted} :
          /\ ~v.ok
          /\ frame' = [frame EXCEPT ![c].pc = "raised", ![c].error = Some(v.value)]
    /\ mpool' = [mpool EXCEPT ![c] = NoPool]
    /\ UNCHANGED <<cpu, ncpuArg, self>>

\* mutant: the exception leaves __call__ and the worker processes live on
CollectRaiseNoExit(c) ==
    /\ frame[c].pc = "collect"
    /\ mpool[c].items # <<>>
    /\ ~Head(mpool[c].items).ok
    /\ frame' = [frame EXCEPT ![c].pc = "raised",
                              ![c].error = Some(Head(mpool[c].items).value)]
    /\ UNCHANGED <<cpu, ncpuArg, self, mpool>>

\* lines 143-145: next() re-raises the exception of a failed job; the `with`
\* block is left through Pool.__exit__, which terminates the workers, and the
\* exception leaves __call__ (lines 153-154 are not reached)
CollectRaise(c) ==
    /\ frame[c].pc = "collect"
    /\ mpool[c].items # <<>>
    /\ ~Head(mpool[c].items).ok
    /\ frame' = [frame EXCEPT ![c].pc = "raised",
                              ![c].error = Some(Head(mpool[c].items).value)]
    /\ mpool' = [mpool EXCEPT ![c] = NoPool]
    /\ UNCHANGED <<cpu, ncpuArg, self>>

\* mutant: collection stops once `total` results are in
CollectStopAtTotal(c) ==
    /\ frame[c].pc = "collect"
    /\ mpool[c].items = <<>>
    /\ Len(frame[c].results) = frame[c].total[1]
    /\ frame' = [frame EXCEPT ![c].pc = "reset"]
    /\ mpool' = [mpool EXCEPT ![c] = NoPool]
    /\ UNCHANGED <<cpu, ncpuArg, self>>

\* lines 143-145: every expected result was yielded (StopIteration); list()
\* is complete and the `with` block ends, terminating the workers
CollectStop(c) ==
    /\ frame[c].pc = "collect"
    /\ mpool[c].items = <<>>
    /\ mpool[c].length = Some(mpool[c].index)
    /\ frame' = [frame EXCEPT ![c].pc = "reset"]
    /\ mpool' = [mpool EXCEPT ![c] = NoPool]
    /\ UNCHANGED <<cpu, ncpuArg, self>>

\* mutant: the saved function is not put back
ResetFuncSkipped(c) ==
    /\ frame[c].pc = "reset"
    /\ frame' = [frame EXCEPT ![c].pc = "returned"]
    /\ UNCHANGED <<cpu, ncpuArg, self, mpool>>

\* lines 153-156: if kwargs: self.func = func; return results
ResetFunc(c) ==
    /\ frame[c].pc = "reset"
    /\ self' = IF frame[c].kwargs # {}
               THEN [self EXCEPT !.func = frame[c].func[1]]
               ELSE self
    /\ frame' = [frame EXCEPT ![c].pc = "returned"]
    /\ UNCHANGED <<cpu, ncpuArg, mpool>>

\* line 156, or the propagating exception: the activation is over and its
\* locals are gone; the caller goes on with the list or the exception
Leave(c) ==
    /\ frame[c].pc \in {"returned", "raised"}
    /\ frame' = [frame EXCEPT ![c] = IdleFrame]
    /\ UNCHANGED <<cpu, ncpuArg, self, mpool>>

(* ------------------------- specifications ------------------------------ *)
\* the machines and requests the pools of Init are constructed with
InitPools ==
    {[machine |-> [ncpus |-> 4, ncores |-> 8], ncpu |-> None, desc |-> "jobs"],
     [machine |-> [ncpus |-> 4, ncores |-> 8], ncpu |-> Some(1), desc |-> ""],
     [machine |-> [ncpus |-> 4, ncores |-> 4], ncpu |-> None, desc |-> ""],
     [machine |-> [ncpus |-> 2, ncores |-> 4], ncpu |-> None, desc |-> "jobs"]}

Init ==
    /\ \E p \in InitPools :
          /\ cpu = p.machine
          /\ ncpuArg = p.ncpu
          /\ self = PoolInit(TheFunc, p.machine, p.ncpu, p.desc)
    /\ frame = [c \in Callers |-> IdleFrame]
    /\ mpool = [c \in Callers |-> NoPool]

\* Pool(func, ncpu, desc) on some machine, while no call is running
Construct(machine, ncpu, desc) ==
    /\ \A c \in Callers : Ended(c)
    /\ cpu' = machine
    /\ ncpuArg' = ncpu
    /\ self' = PoolInit(TheFunc, machine, ncpu, desc)
    /\ frame' = [c \in Callers |-> IdleFrame]
    /\ mpool' = [c \in Callers |-> NoPool]

\* a machine has at least as many logical cores as physical ones
Machines ==
    {m \in [ncpus : 1..MaxPhysical, ncores : 1..MaxLogical] : m.ncores >= m.ncpus}

\* the steps of one activation of __call__ and of its worker pool
Steps(c) ==
    \/ SerialStep(c)
    \/ SerialReturn(c)
    \/ SaveFunc(c)
    \/ BindFunc(c)
    \/ MakePoolFail(c)
    \/ MakePool(c)
    \/ Dispatch(c)
    \/ SetLength(c)
    \/ \E w \in 1..mpool[c].processes : WorkerTake(c, w)
    \/ \E w \in 1..mpool[c].processes : WorkerFinish(c, w)
    \/ CollectNext(c)
    \/ CollectRaise(c)
    \/ CollectStop(c)
    \/ ResetFunc(c)

\* an activation runs, and ends
Run(c) ==
    \/ Steps(c)
    \/ Leave(c)

\* caller c, between calls, calls the pool with some arguments
Invoke(c) ==
    /\ frame[c].pc = "idle"
    /\ \/ \E itrs \in Iterables, args \in SharedArgs, total \in Totals, kwargs \in Kwargs :
             Call(c, itrs, args, total, kwargs)
       \/ \E itrs \in Iterables, args \in SharedArgs, kwargs \in Kwargs :
             CallNoLen(c, itrs, args, kwargs)

\* the callers serialize their calls: one thread uses the pool
Next ==
    \/ Invoke(MainCaller)
    \/ Run(MainCaller)

Spec == Init /\ [][Next]_vars

\* The threads and processes of a running invocation are scheduled: the
\* calling thread, the handler threads of the worker pool and the worker
\* processes do not all wait forever while one of them can take a step.
SpecFair == Spec /\ WF_vars(Steps(MainCaller))

\* construction alone
NextCtor ==
    /\ \A c \in Callers : Ended(c)
    /\ \E machine \in Machines, ncpu \in NcpuArgs, desc \in Descs :
        Construct(machine, ncpu, desc)

SpecCtor == Init /\ [][NextCtor]_vars

\* Two threads share a pool of two workers and each calls it once, with a list
\* and its own keyword option or none, without waiting for the other.
ConcIterables == {[items |-> s, sized |-> TRUE] : s \in SeqsUpTo(MaxConcLen)}
ConcKwargs(c) == {{}, {<<"k", IF c = MainCaller THEN 1 ELSE MaxOption>>}}

InitConc ==
    /\ Init
    /\ cpu = [ncpus |-> 4, ncores |-> 8]
    /\ ncpuArg = None

InvokeConc(c) ==
    /\ frame[c].pc = "idle"
    /\ \E itrs \in ConcIterables, kwargs \in ConcKwargs(c) :
          Call(c, itrs, <<>>, None, kwargs)

NextConc ==
    \E c \in Callers :
        \/ InvokeConc(c)
        \/ Steps(c)

SpecConc == InitConc /\ [][NextConc]_vars

(* ----------------------------- properties ------------------------------ *)
\* the branch an activation took, as its LOGGER.info line tells
Mode(c) == IF frame[c].log = <<>> THEN "none" ELSE frame[c].log[1].mode

\* what the function held at entry returns for the i-th input, called with the
\* shared arguments and the keyword options of the activation
Expected(c, i) ==
    [kind |-> "result", item |-> frame[c].itrs.items[i], args |-> frame[c].args,
     kwargs |-> Merge(frame[c].entry.keywords, frame[c].kwargs)]

InOrder(c) ==
    /\ Len(frame[c].results) = Len(frame[c].itrs.items)
    /\ \A i \in 1..Len(frame[c].results) : frame[c].results[i] = Expected(c, i)

\* C1: a PARALLEL invocation that returns, returns the list SERIAL execution
\* of the pool's function yields for the same inputs, shared arguments and
\* options, in input order, whichever worker ran which item and in whatever
\* order the workers finished.
C1_ParallelEqualsSerial ==
    \A c \in Callers :
        frame[c].pc = "returned" /\ Mode(c) = "Parallel" => InOrder(c)

\* a parallel invocation of a fresh pool returned although a later job had
\* finished before an earlier one
C1_Witness ==
    \E c \in Callers :
        /\ frame[c].pc = "returned" /\ Mode(c) = "Parallel"
        /\ Len(frame[c].itrs.items) > 1 /\ frame[c].ncpu[1] > 1
        /\ frame[c].early
        /\ frame[c].args # <<>> /\ frame[c].kwargs # {}

\* C2 (as claimed): whenever an invocation has ended, by returning or by
\* raising, the pool's stored function is the one it held before the call.
C2_FuncRestored ==
    \A c \in Callers :
        frame[c].pc \in {"returned", "raised"} => self.func = frame[c].entry

\* C3 (as claimed): the stored worker count is at least 1 and at most the
\* hardware ceiling P - (L div P).
C3_NcpuInRange ==
    /\ 1 <= self.ncpu
    /\ self.ncpu <= cpu.ncpus - (cpu.ncores \div cpu.ncpus)

\* whether the call the record tells of raised
Raised(call) == FuncRaises(call.item, call.args, call.kwargs)

\* C4: an invocation in which the function raised never returns a list; it
\* ends with the function's error for an item that was called.  A returned
\* list has a result for every input and no error in it, and no item is
\* called twice.
C4_AllOrNothing ==
    \A c \in Callers :
        LET fr == frame[c]
            failed == {j \in 1..Len(fr.calls) : Raised(fr.calls[j])}
        IN /\ fr.pc = "returned" =>
                /\ failed = {}
                /\ Len(fr.results) = Len(fr.itrs.items)
                /\ \A i \in 1..Len(fr.results) : fr.results[i].kind = "result"
           /\ fr.pc \in {"returned", "raised"} /\ failed # {} =>
                /\ fr.pc = "raised"
                /\ \E j \in failed :
                      fr.error = Some(FuncValue(fr.calls[j].item, fr.calls[j].args,
                                                fr.calls[j].kwargs))
           /\ \A j, k \in 1..Len(fr.calls) : fr.calls[j].idx = fr.calls[k].idx => j = k

\* a parallel invocation raised the function's error after results of earlier
\* items had been collected
C4_Witness ==
    \E c \in Callers :
        /\ frame[c].pc = "raised" /\ Mode(c) = "Parallel"
        /\ frame[c].error # None /\ frame[c].error[1].kind = "error"
        /\ frame[c].results # <<>>

C6_SerialInOrder ==
    \A c \in Callers :
        Mode(c) = "Serial" =>
            /\ ~mpool[c].open
            /\ Len(frame[c].calls) <= Len(frame[c].results) + 1
            /\ \A j \in 1..Len(frame[c].calls) :
                  /\ frame[c].calls[j].idx = j - 1
                  /\ frame[c].calls[j].item = frame[c].itrs.items[j]
            /\ frame[c].pc = "returned" => InOrder(c)

\* a serial invocation on several inputs returned
C6_Witness ==
    \E c \in Callers :
        /\ frame[c].pc = "returned" /\ Mode(c) = "Serial"
        /\ Len(frame[c].itrs.items) > 1

\* C7 (as claimed): in an invocation made without keyword options the
\* function receives no keyword option for any item.
C7_OptionsDoNotPersist ==
    \A c \in Callers :
        frame[c].kwargs = {} =>
            \A j \in 1..Len(frame[c].calls) : frame[c].calls[j].kwargs = {}

\* C8 (as claimed): an invocation whose item count is determined runs SERIAL
\* exactly when e = min(total, pool.ncpu) is 1 and PARALLEL exactly when
\* e > 1; a worker set has at least 2 workers; an invocation with one item
\* and no explicit total runs SERIAL.
C8_ModeByEffectiveCount ==
    \A c \in Callers :
        frame[c].total # None =>
            LET e == Min(frame[c].total[1], self.ncpu)
            IN /\ Mode(c) \in {"Serial", "Parallel"}
               /\ Mode(c) = "Serial" <=> e = 1
               /\ Mode(c) = "Parallel" <=> e > 1
               /\ mpool[c].open => mpool[c].processes >= 2
               /\ (Len(frame[c].itrs.items) = 1 /\ frame[c].totalArg = None) =>
                     Mode(c) = "Serial"

\* C9 (as claimed): a successful invocation emits exactly `total` progress
\* ticks, `total` being the explicit argument when one is given.
C9_TicksEqualTotal ==
    \A c \in Callers :
        frame[c].pc = "returned" => frame[c].ticks = frame[c].total[1]

\* C9 (amended): a successful invocation emits exactly one progress tick per
\* input; that is `total` ticks when total is omitted or is the number of
\* inputs.
C9_TicksEqualItems ==
    \A c \in Callers :
        frame[c].pc = "returned" =>
            /\ frame[c].ticks = Len(frame[c].itrs.items)
            /\ (frame[c].totalArg = None
                  \/ frame[c].totalArg[1] = Len(frame[c].itrs.items)) =>
                  frame[c].ticks = frame[c].total[1]

\* a parallel invocation returned whose explicit total is not its number of
\* inputs
C9_Witness ==
    \E c \in Callers :
        /\ frame[c].pc = "returned" /\ Mode(c) = "Parallel"
        /\ frame[c].totalArg # None
        /\ frame[c].totalArg[1] # Len(frame[c].itrs.items)
        /\ frame[c].ticks > 0

\* C10: the list an invocation returns has one element per input, the i-th
\* being a result of the function for the i-th input, also for no inputs and
\* for an explicit total that is not the number of inputs.
C10_OnePerInput ==
    \A c \in Callers :
        frame[c].pc = "returned" =>
            /\ Len(frame[c].results) = Len(frame[c].itrs.items)
            /\ \A i \in 1..Len(frame[c].results) :
                  /\ frame[c].results[i].kind = "result"
                  /\ frame[c].results[i].item = frame[c].itrs.items[i]

\* a parallel invocation returned whose explicit total is below its number of
\* inputs
C10_Witness ==
    \E c \in Callers :
        /\ frame[c].pc = "returned" /\ Mode(c) = "Parallel"
        /\ frame[c].totalArg # None
        /\ frame[c].totalArg[1] < Len(frame[c].itrs.items)

\* the item count of caller c's invocation cannot be determined
Undetermined(c) ==
    /\ frame[c].pc # "idle"
    /\ ~frame[c].itrs.sized
    /\ frame[c].totalArg = None

\* C11: an invocation whose item count cannot be determined (no len(), no
\* explicit total) fails before any work: every step that leaves a caller in
\* such an invocation leaves it raised with the TypeError of len(), with no
\* call of the function, no worker pool, no progress tick and no notice, and
\* leaves the pool object as it was.
C11_FailFast ==
    [][\A c \in Callers :
          Undetermined(c)' =>
              /\ frame'[c].pc = "raised"
              /\ frame'[c].error = Some(OtherError("TypeError"))
              /\ frame'[c].calls = <<>>
              /\ frame'[c].results = <<>>
              /\ frame'[c].ticks = 0
              /\ frame'[c].log = <<>>
              /\ ~mpool'[c].open
              /\ self' = self]_vars

\* a generator with an item was passed with keyword options and no total
C11_Witness ==
    \E c \in Callers :
        /\ Undetermined(c)
        /\ frame[c].pc = "raised"
        /\ frame[c].itrs.items # <<>>
        /\ frame[c].kwargs # {}

\* C12: the pool is not safe for overlapping invocations.  When successful
\* invocations are serialized (the one that returns overlapped no other, and
\* every other one has returned or has not begun), the stored function is the
\* original one when the invocation returns; overlapping invocations can both
\* return and leave another function stored (the witness), because their
\* save/rebind/restore steps interleave.
C12_SerializedRestores ==
    [][\A c \in Callers :
          (/\ frame[c].pc # "returned"
           /\ frame'[c].pc = "returned"
           /\ ~frame'[c].overlap
           /\ \A d \in Callers \ {c} : frame'[d].pc \in {"idle", "returned"})
              => /\ self'.func = frame'[c].entry
                 /\ self'.func = TheFunc]_vars

\* two overlapping invocations of a fresh pool, one of them PARALLEL with
\* keyword options, have both returned and the stored function is not the
\* original one
C12_Witness ==
    /\ \A c \in Callers :
          /\ frame[c].pc = "returned"
          /\ frame[c].overlap
          /\ frame[c].entry = TheFunc
    /\ \E c \in Callers : Mode(c) = "Parallel" /\ frame[c].kwargs # {}
    /\ self.func # TheFunc

\* the worker processes of caller c's invocation that are inside __worker__,
\* that is the calls of the function that are in progress
Busy(c) == {w \in DOMAIN mpool[c].workers : mpool[c].workers[w] # None}

\* C13: while a PARALLEL invocation has its worker pool, the calls of the
\* function in progress are at most e = min(total, pool.ncpu), which is the
\* number of worker processes and is at most the stored worker count; outside
\* that, a PARALLEL invocation has no call in progress.
C13_BoundedConcurrency ==
    \A c \in Callers :
        /\ ~mpool[c].open => Busy(c) = {}
        /\ mpool[c].open =>
              LET e == Min(frame[c].total[1], self.ncpu)
              IN /\ Mode(c) = "Parallel"
                 /\ DOMAIN mpool[c].workers = 1..e
                 /\ Cardinality(Busy(c)) <= e
                 /\ e <= self.ncpu

\* every worker of a PARALLEL invocation is inside a call and inputs are
\* still waiting for a worker
C13_Witness ==
    \E c \in Callers :
        /\ mpool[c].open
        /\ mpool[c].processes > 1
        /\ Cardinality(Busy(c)) = mpool[c].processes
        /\ mpool[c].inqueue # <<>>

\* whether caller c's PARALLEL invocation is past its `with` block
Past(c) == Mode(c) = "Parallel" /\ frame[c].pc \in {"reset", "returned", "raised"}

\* C14: once a PARALLEL invocation is past its worker pool, by completing the
\* list or by an exception, the pool is torn down: no worker process is left,
\* no call of the function is in progress and none is started from then on.
C14_TornDown ==
    [][\A c \in Callers :
          Past(c)' =>
              /\ ~mpool'[c].open
              /\ mpool'[c].workers = <<>>
              /\ mpool'[c].inqueue = <<>>
              /\ Past(c) => frame'[c].calls = frame[c].calls]_vars

\* a PARALLEL invocation raised the function's error when calls for later
\* inputs had been started and an input had not been started yet
C14_Witness ==
    \E c \in Callers :
        /\ Past(c)
        /\ frame[c].pc = "raised"
        /\ frame[c].error[1].kind = "error"
        /\ Len(frame[c].results) + 1 < Len(frame[c].calls)
        /\ Len(frame[c].calls) < Len(frame[c].itrs.items)

\* a call of the function has raised in caller c's invocation: in a worker,
\* whose failed result waits in the imap iterator, or in the serial loop or
\* at collection, where it ended the invocation
FailureOccurred(c) ==
    \/ \E j \in 1..Len(mpool[c].items) : ~mpool[c].items[j].ok
    \/ \E r \in mpool[c].unsorted : ~r.obj.ok
    \/ /\ frame[c].pc = "raised"
       /\ frame[c].error[1].kind = "error"

\* C15 (as claimed): once the function has raised for an item, no call of the
\* function is started in that invocation, in SERIAL or in PARALLEL mode.
C15_NoStartAfterFailure ==
    [][\A c \in Callers :
          FailureOccurred(c) => Len(frame'[c].calls) <= Len(frame[c].calls)]_vars

\* C15 (amended): in SERIAL mode only the last call made can have raised, so
\* the function is never called on an item after the failing one; in either
\* mode no call is started once the invocation has raised.  (A PARALLEL
\* invocation raises when the caller collects the failed result, until then
\* its workers go on taking inputs.)
C15_NoStartAfterRaise ==
    [][\A c \in Callers :
          /\ Mode(c)' = "Serial" =>
                \A j \in 1..(Len(frame'[c].calls) - 1) : ~Raised(frame'[c].calls[j])
          /\ frame[c].pc = "raised" =>
                Len(frame'[c].calls) <= Len(frame[c].calls)]_vars

\* a call has failed in a PARALLEL invocation that is still collecting, and
\* every worker is inside a call: the worker that failed has started another
\* input since
C15_Witness ==
    \E c \in Callers :
        /\ frame[c].pc = "collect"
        /\ FailureOccurred(c)
        /\ mpool[c].processes > 1
        /\ Cardinality(Busy(c)) = mpool[c].processes

\* C16: no step of an invocation, SERIAL or PARALLEL, with or without keyword
\* options, returning or raising, changes the stored worker count or the
\* description of the pool.
C16_FixedAtConstruction ==
    [][/\ self'.ncpu = self.ncpu
       /\ self'.desc = self.desc]_vars

\* a PARALLEL invocation with keyword options raised and left another
\* function stored, and the pool still has the worker count and the description
\* of its construction
C16_Witness ==
    \E c \in Callers :
        /\ frame[c].pc = "raised" /\ Mode(c) = "Parallel"
        /\ frame[c].kwargs # {}
        /\ self.func # frame[c].entry
        /\ self.ncpu = ResolveNcpu(cpu.ncpus, cpu.ncores, ncpuArg)
        /\ self.desc = "jobs"

\* the item count of caller c's invocation is determined
Determined(c) == frame[c].total # None

\* C17 (as claimed): an invocation whose item count is determined has emitted
\* exactly one notice, and the notice states the mode, the item count and the
\* chosen worker count.
C17_NoticeStatesAll ==
    \A c \in Callers :
        Determined(c) =>
            /\ Len(frame[c].log) = 1
            /\ frame[c].log[1].mode \in {"Serial", "Parallel"}
            /\ frame[c].log[1].jobs = frame[c].total
            /\ frame[c].log[1].processes = frame[c].ncpu

\* C17 (amended): an invocation whose item count is determined emits exactly
\* one notice, in the step that determines the count, when no call of the
\* function and no progress tick has happened; the notice of a PARALLEL
\* invocation states the mode, the item count and the chosen worker count, the
\* notice of a SERIAL invocation states the mode only (its worker count is 1).
C17_OneNotice ==
    [][\A c \in Callers :
          /\ Determined(c)' =>
                /\ Len(frame'[c].log) = 1
                /\ frame'[c].log[1].mode = "Serial" =>
                      /\ frame'[c].log[1].jobs = None
                      /\ frame'[c].log[1].processes = None
                      /\ frame'[c].ncpu = Some(1)
                /\ frame'[c].log[1].mode # "Serial" =>
                      /\ frame'[c].log[1].mode = "Parallel"
                      /\ frame'[c].log[1].jobs = frame'[c].total
                      /\ frame'[c].log[1].processes = frame'[c].ncpu
          /\ (Determined(c)' /\ ~Determined(c)) =>
                /\ frame'[c].calls = <<>>
                /\ frame'[c].ticks = 0
          /\ (frame'[c].calls # <<>> \/ frame'[c].ticks > 0) => Determined(c)]_vars

\* a SERIAL invocation has called the function and ticked, after a notice
\* that states neither the item count nor the worker count
C17_Witness ==
    \E c \in Callers :
        /\ Determined(c)
        /\ Mode(c) = "Serial"
        /\ frame[c].calls # <<>> /\ frame[c].ticks > 0
        /\ frame[c].log = <<[mode |-> "Serial", jobs |-> None, processes |-> None]>>

\* C18: under fair scheduling every invocation ends: a caller that is inside
\* __call__ eventually has the returned list or the raised exception.
C18_Terminates ==
    \A c \in Callers :
        (frame[c].pc \notin {"idle", "returned", "raised"})
            ~> (frame[c].pc \in {"returned", "raised"})

\* a PARALLEL invocation with more inputs than workers has ended, after a
\* result had arrived ahead of an earlier one the caller was waiting for
C18_Witness ==
    \E c \in Callers :
        /\ frame[c].pc \in {"returned", "raised"}
        /\ Mode(c) = "Parallel"
        /\ frame[c].ncpu[1] > 1
        /\ Len(frame[c].itrs.items) > frame[c].ncpu[1]
        /\ frame[c].early

\* the inputs of caller c's invocation for which the function held at entry
\* raises, by position
Failing(c) ==
    {j \in 1..Len(frame[c].itrs.items) :
        ~Apply(frame[c].entry, frame[c].itrs.items[j], frame[c].args, frame[c].kwargs).ok}

\* the error SERIAL execution of caller c's inputs propagates: that of the
\* first input in input order for which the function raises
SerialError(c) ==
    LET m == CHOOSE j \in Failing(c) : \A k \in Failing(c) : j <= k
    IN Apply(frame[c].entry, frame[c].itrs.items[m], frame[c].args, frame[c].kwargs).value

\* C19: the function's error that a PARALLEL invocation propagates is the one
\* raised for the failing input with the smallest index, the error SERIAL
\* execution of the same inputs propagates, whichever failure the workers
\* reached first.
C19_FirstFailureByIndex ==
    \A c \in Callers :
        (/\ frame[c].pc = "raised"
         /\ Mode(c) = "Parallel"
         /\ frame[c].error[1].kind = "error")
            => /\ Failing(c) # {}
               /\ frame[c].error = Some(SerialError(c))

\* a PARALLEL invocation on two inputs raised; the function raises for both
\* and the failure of the second reached the caller's iterator first
C19_Witness ==
    \E c \in Callers :
        /\ frame[c].pc = "raised" /\ Mode(c) = "Parallel"
        /\ frame[c].error[1].kind = "error"
        /\ Len(frame[c].itrs.items) = 2
        /\ Failing(c) = {1, 2}
        /\ frame[c].early

====
